---- MODULE Spec2Model ----
(***************************************************************************)
(* Model of taipy's data node converter (_DataNodeConverter) and of the    *)
(* v2 repository that persists data nodes through it.                      *)
(*                                                                         *)
(* Python values are tagged records, so that values of different Python    *)
(* types can be told apart and compared:                                   *)
(*   None      [kind |-> "None"]                                           *)
(*   str       [kind |-> "str", v |-> "..."]                               *)
(*   int       [kind |-> "int", v |-> n]                                   *)
(*   function / class object   [kind |-> "obj", module, name]              *)
(*   datetime  [kind |-> "datetime", day, sec, us]                         *)
(*   timedelta [kind |-> "timedelta", days, seconds, microseconds]         *)
(*   ISO-8601 text  [kind |-> "str", iso |-> <<date, time>>] or            *)
(*                  [kind |-> "str", iso |-> <<date, time, fraction>>]     *)
(*   list      [kind |-> "list", items |-> sequence]                       *)
(*   dict      [kind |-> "dict", items |-> function on its keys]           *)
(* A property bag and an Edit are dicts used directly: functions whose     *)
(* domain is the set of keys present.                                      *)
(***************************************************************************)
EXTENDS Integers, Sequences, FiniteSets, TLC

VARIABLES
    entity,   \* the DataNode handed to the converter
    model,    \* the _DataNodeModel at hand (NoModel before any exists)
    ret,      \* outcome of the last operation: a value or a raised exception
    op,       \* the last operation and its arguments
    diag,     \* deprecation diagnostics emitted by the last operation
    store,    \* repository: identifier -> persisted _DataNodeModel
    saved     \* history: identifier -> DataNode handed to the last successful save

vars == <<entity, model, ret, op, diag, store, saved>>

---------------------------------------------------------------------------
(* Bounds of the model *)

MaxEdits == 2

MaxExposed == 2

NumIds == 3

---------------------------------------------------------------------------
(* Python values *)

None == [kind |-> "None"]

Str(s) == [kind |-> "str", v |-> s]

PyInt(n) == [kind |-> "int", v |-> n]

Obj(m, n) == [kind |-> "obj", module |-> m, name |-> n]

DateTime(d, s, u) == [kind |-> "datetime", day |-> d, sec |-> s, us |-> u]

TimeDelta(d, s, u) == [kind |-> "timedelta", days |-> d, seconds |-> s, microseconds |-> u]

PyList(q) == [kind |-> "list", items |-> q]

PyDict(f) == [kind |-> "dict", items |-> f]

Ok(v) == [ok |-> TRUE, val |-> v]

Raise(e, a) == [ok |-> FALSE, exc |-> e, arg |-> a]

\* Python truthiness of the values the converter tests with `if x`.
Truthy(x) ==
    CASE x.kind = "None" -> FALSE
      [] x.kind = "timedelta" -> ~(x.days = 0 /\ x.seconds = 0 /\ x.microseconds = 0)
      [] x.kind = "str" -> IF "v" \in DOMAIN x THEN x.v # "" ELSE TRUE
      [] OTHER -> TRUE

\* dict.get(k, None), d[k] = v, and removal of a key.
Get(d, k) == IF k \in DOMAIN d THEN d[k] ELSE None

Put(d, k, v) == [x \in (DOMAIN d) \cup {k} |-> IF x = k THEN v ELSE d[x]]

Del(d, k) == [x \in (DOMAIN d) \ {k} |-> d[x]]

EmptyDict == [x \in {} |-> None]

---------------------------------------------------------------------------
(* Names the converter takes from the data node classes and its own keys *)

GENERIC == "generic"

JSON == "json"

SQL == "sql"

MONGO == "mongo_collection"

READ_FCT == "read_fct"

WRITE_FCT == "write_fct"

ENCODER == "encoder"

DECODER == "decoder"

WRITE_QUERY_BUILDER == "write_query_builder"

CUSTOM_DOCUMENT == "custom_document"

EXPOSED_TYPE_KEY == "exposed_type"

VALID_STRING_EXPOSED_TYPES == {Str("numpy"), Str("pandas"), Str("modin")}

---------------------------------------------------------------------------
(* The reference registry: the functions and classes that module import   *)
(* and attribute lookup can reach.  Two modules share the symbol name     *)
(* "read" and one module holds several symbols, so that a resolution that *)
(* drops or swaps the namespace or the name is visible.                   *)

Objects ==
    { Obj("app.io", "read"), Obj("app.io", "write"), Obj("lib.io", "read"),
      Obj("app.codec", "Encoder"), Obj("app.codec", "Decoder"),
      Obj("app.sql", "build_query"), Obj("app.docs", "Document"),
      Obj("pandas", "DataFrame"), Obj("app.types", "Row"), Obj("lib.types", "Row") }

\* Mutant of qualified_name: the class's name without its module.
qualified_name_without_module(v) ==
    IF v.kind = "obj" THEN Ok(Str(v.name)) ELSE Raise("AttributeError", "__module__")

\* f"{v.__module__}.{v.__qualname__}"; only functions and classes carry both.
qualified_name(v) ==
    IF v.kind = "obj"
    THEN Ok(Str(v.module \o "." \o v.name))
    ELSE Raise("AttributeError", "__module__")

\* pydoc.locate(path): the object of that dotted path, None when there is none.
locate(path) ==
    IF path.kind = "str" /\ "v" \in DOMAIN path
       /\ \E o \in Objects : o.module \o "." \o o.name = path.v
    THEN CHOOSE o \in Objects : o.module \o "." \o o.name = path.v
    ELSE None

\* _load_fct(module_name, fct_name): import the module, get the attribute.
load_fct(module_name, fct_name) ==
    IF \E o \in Objects : Str(o.module) = module_name /\ Str(o.name) = fct_name
    THEN Ok(CHOOSE o \in Objects : Str(o.module) = module_name /\ Str(o.name) = fct_name)
    ELSE Raise("ResolutionError", fct_name)

---------------------------------------------------------------------------
(* datetime and timedelta *)

\* datetime.isoformat(): the fraction is written only when it is not zero.
isoformat(t) ==
    IF t.us = 0
    THEN [kind |-> "str", iso |-> <<t.day, t.sec>>]
    ELSE [kind |-> "str", iso |-> <<t.day, t.sec, t.us>>]

\* datetime.fromisoformat(s)
fromisoformat(s) ==
    IF s.kind # "str" THEN Raise("TypeError", "fromisoformat: argument must be str")
    ELSE IF "iso" \notin DOMAIN s THEN Raise("ValueError", "Invalid isoformat string")
    ELSE IF Len(s.iso) = 2 THEN Ok(DateTime(s.iso[1], s.iso[2], 0))
    ELSE Ok(DateTime(s.iso[1], s.iso[2], s.iso[3]))

\* timedelta(days=d, seconds=s), normalised as Python does.
timedelta(d, s) == TimeDelta(d + (s \div 86400), s % 86400, 0)

---------------------------------------------------------------------------
(* _DataNodeConverter: entity -> model *)

\* A callable property becomes its __name__ and its __module__, None when the
\* property is missing or None (the `x.__name__ if x else None` of the code).
name_or_none(x) == IF Truthy(x) THEN Str(x.name) ELSE None

module_or_none(x) == IF Truthy(x) THEN Str(x.module) ELSE None

\* `del d[k1], d[k2], ...` in order: KeyError at the first key that is missing.
RECURSIVE del_keys(_, _)
del_keys(d, keys) ==
    IF keys = <<>> THEN Ok(d)
    ELSE IF Head(keys) \notin DOMAIN d THEN Raise("KeyError", Head(keys))
    ELSE del_keys(Del(d, Head(keys)), Tail(keys))

\* d.pop(k, None)
pop(d, k) == Del(d, k)

serialize_generic_dn_properties(datanode_properties) ==
    LET read_fct == Get(datanode_properties, READ_FCT)
        p1 == Put(Put(datanode_properties, "read_fct_name", name_or_none(read_fct)),
                  "read_fct_module", module_or_none(read_fct))
        write_fct == Get(p1, WRITE_FCT)
        p2 == Put(Put(p1, "write_fct_name", name_or_none(write_fct)),
                  "write_fct_module", module_or_none(write_fct))
    IN  del_keys(p2, <<READ_FCT, WRITE_FCT>>)

serialize_json_dn_properties(datanode_properties) ==
    LET encoder == Get(datanode_properties, ENCODER)
        p1 == pop(Put(Put(datanode_properties, "encoder_name", name_or_none(encoder)),
                      "encoder_module", module_or_none(encoder)), ENCODER)
        decoder == Get(p1, DECODER)
        p2 == pop(Put(Put(p1, "decoder_name", name_or_none(decoder)),
                      "decoder_module", module_or_none(decoder)), DECODER)
    IN  Ok(p2)

serialize_sql_dn_properties(datanode_properties) ==
    LET query_builder == Get(datanode_properties, WRITE_QUERY_BUILDER)
    IN  Ok(pop(Put(Put(datanode_properties, "write_query_builder_name",
                       name_or_none(query_builder)),
                   "write_query_builder_module", module_or_none(query_builder)),
               WRITE_QUERY_BUILDER))

serialize_mongo_collection_dn_model_properties(datanode_properties) ==
    IF CUSTOM_DOCUMENT \in DOMAIN datanode_properties
    THEN LET q == qualified_name(datanode_properties[CUSTOM_DOCUMENT])
         IN  IF q.ok THEN Ok(Put(datanode_properties, CUSTOM_DOCUMENT, q.val)) ELSE q
    ELSE Ok(datanode_properties)

\* The variant-specific transform selected by storage_type (lines 121-131).
serialize_variant_properties(storage_type, properties) ==
    CASE storage_type = GENERIC -> serialize_generic_dn_properties(properties)
      [] storage_type = JSON -> serialize_json_dn_properties(properties)
      [] storage_type = SQL -> serialize_sql_dn_properties(properties)
      [] storage_type = MONGO -> serialize_mongo_collection_dn_model_properties(properties)
      [] OTHER -> Ok(properties)

\* v if v in _VALID_STRING_EXPOSED_TYPES else f"{v.__module__}.{v.__qualname__}"
serialize_exposed_value(v) ==
    IF v \in VALID_STRING_EXPOSED_TYPES THEN Ok(v) ELSE qualified_name(v)

\* The first exception raised while converting the values of a list or dict,
\* or the converted collection.
first_raise(results, keys) ==
    IF \E k \in keys : ~results[k].ok
    THEN results[CHOOSE k \in keys : ~results[k].ok]
    ELSE Ok([k \in keys |-> results[k].val])

serialize_exposed_type(properties) ==
    IF EXPOSED_TYPE_KEY \notin DOMAIN properties THEN Ok(properties)
    ELSE LET x == properties[EXPOSED_TYPE_KEY]
             converted ==
                 CASE x.kind = "str" -> Ok(x)
                   [] x.kind = "dict" ->
                        LET r == first_raise([k \in DOMAIN x.items |->
                                                serialize_exposed_value(x.items[k])],
                                             DOMAIN x.items)
                        IN  IF r.ok THEN Ok(PyDict(r.val)) ELSE r
                   [] x.kind = "list" ->
                        LET r == first_raise([i \in DOMAIN x.items |->
                                                serialize_exposed_value(x.items[i])],
                                             DOMAIN x.items)
                        IN  IF r.ok THEN Ok(PyList(r.val)) ELSE r
                   [] OTHER -> qualified_name(x)
         IN  IF converted.ok THEN Ok(Put(properties, EXPOSED_TYPE_KEY, converted.val))
             ELSE converted

\* An Edit reduced to its timestamp: what _serialize_edits would write if it
\* built each Edit anew instead of copying it.
serialize_edit_timestamp_only(edit, now) ==
    LET timestamp == Get(edit, "timestamp")
    IN  [k \in {"timestamp"} |->
            IF Truthy(timestamp) THEN isoformat(timestamp) ELSE isoformat(now)]

\* One Edit: a copy with its timestamp in ISO form; the current time when the
\* Edit has none.
serialize_edit(edit, now) ==
    LET timestamp == Get(edit, "timestamp")
    IN  IF Truthy(timestamp) THEN Put(edit, "timestamp", isoformat(timestamp))
        ELSE Put(edit, "timestamp", isoformat(now))

\* Whether converting this Edit calls _warn_deprecated.
is_legacy_edit(edit) == ~Truthy(Get(edit, "timestamp"))

serialize_edits(edits, now) ==
    [edits |-> [i \in 1..Len(edits) |-> serialize_edit(edits[i], now)],
     warnings |-> Cardinality({i \in 1..Len(edits) : is_legacy_edit(edits[i])})]

\* list(s): the elements of a set in some order.
RECURSIVE list_of(_)
list_of(S) ==
    IF S = {} THEN <<>>
    ELSE LET x == CHOOSE y \in S : TRUE IN <<x>> \o list_of(S \ {x})

validity_days_of(validity_period) ==
    IF Truthy(validity_period) THEN PyInt(validity_period.days) ELSE None

validity_seconds_of(validity_period) ==
    IF Truthy(validity_period) THEN PyInt(validity_period.seconds) ELSE None

last_edit_date_of(last_edit_date) ==
    IF Truthy(last_edit_date) THEN isoformat(last_edit_date) ELSE None

\* Mutant of data_node_model: id and config_id in each other's position.
data_node_model_ids_swapped(id, config_id, scope, storage_type, name, owner_id, parent_ids, last_edit_date, edits, version, validity_days, validity_seconds, edit_in_progress, data_node_properties) ==
    [id |-> config_id, config_id |-> id, scope |-> scope, storage_type |-> storage_type,
     name |-> name, owner_id |-> owner_id, parent_ids |-> parent_ids,
     last_edit_date |-> last_edit_date, edits |-> edits, version |-> version,
     validity_days |-> validity_days, validity_seconds |-> validity_seconds,
     edit_in_progress |-> edit_in_progress, data_node_properties |-> data_node_properties]

\* Mutant of data_node_model: name and owner_id in each other's position.
data_node_model_name_owner_swapped(id, config_id, scope, storage_type, name, owner_id, parent_ids, last_edit_date, edits, version, validity_days, validity_seconds, edit_in_progress, data_node_properties) ==
    [id |-> id, config_id |-> config_id, scope |-> scope, storage_type |-> storage_type,
     name |-> owner_id, owner_id |-> name, parent_ids |-> parent_ids,
     last_edit_date |-> last_edit_date, edits |-> edits, version |-> version,
     validity_days |-> validity_days, validity_seconds |-> validity_seconds,
     edit_in_progress |-> edit_in_progress, data_node_properties |-> data_node_properties]

\* The positional call _DataNodeModel(...) of lines 150-165: which value goes
\* to which field of the model.
data_node_model(id, config_id, scope, storage_type, name, owner_id, parent_ids, last_edit_date, edits, version, validity_days, validity_seconds, edit_in_progress, data_node_properties) ==
    [id |-> id, config_id |-> config_id, scope |-> scope, storage_type |-> storage_type,
     name |-> name, owner_id |-> owner_id, parent_ids |-> parent_ids,
     last_edit_date |-> last_edit_date, edits |-> edits, version |-> version,
     validity_days |-> validity_days, validity_seconds |-> validity_seconds,
     edit_in_progress |-> edit_in_progress, data_node_properties |-> data_node_properties]

\* _entity_to_model(data_node): the _DataNodeModel, or the exception raised,
\* and the number of deprecation diagnostics emitted on the way.
entity_to_model(data_node, now) ==
    LET p1 == serialize_variant_properties(data_node.storage_type, data_node.properties)
        p2 == IF p1.ok THEN serialize_exposed_type(p1.val) ELSE p1
        e == serialize_edits(data_node.edits, now)
    IN  IF ~p2.ok THEN [ret |-> p2, warnings |-> 0]
        ELSE [ret |-> Ok(data_node_model(
                            data_node.id,
                            data_node.config_id,
                            data_node.scope,
                            data_node.storage_type,
                            data_node.name,
                            data_node.owner_id,
                            list_of(data_node.parent_ids),
                            last_edit_date_of(data_node.last_edit_date),
                            e.edits,
                            data_node.version,
                            validity_days_of(data_node.validity_period),
                            validity_seconds_of(data_node.validity_period),
                            data_node.edit_in_progress,
                            p2.val)),
              warnings |-> e.warnings]

---------------------------------------------------------------------------
(* _DataNodeConverter: model -> entity *)

\* One symbolic reference of a model's property map back to the callable:
\*   if props[module_key]: props[target] = _load_fct(props[module_key], props[name_key])
\*   else: props[target] = None
\* A subscript of a missing key raises KeyError.
deserialize_reference(props, module_key, name_key, target) ==
    IF module_key \notin DOMAIN props THEN Raise("KeyError", module_key)
    ELSE IF ~Truthy(props[module_key]) THEN Ok(Put(props, target, None))
    ELSE IF name_key \notin DOMAIN props THEN Raise("KeyError", name_key)
    ELSE LET f == load_fct(props[module_key], props[name_key])
         IN  IF f.ok THEN Ok(Put(props, target, f.val)) ELSE f

deserialize_generic_dn_properties(datanode_model_properties) ==
    LET r1 == deserialize_reference(datanode_model_properties,
                                    "read_fct_module", "read_fct_name", READ_FCT)
        r2 == IF r1.ok
              THEN deserialize_reference(r1.val, "write_fct_module", "write_fct_name", WRITE_FCT)
              ELSE r1
    IN  IF r2.ok
        THEN del_keys(r2.val, <<"read_fct_name", "read_fct_module",
                                "write_fct_name", "write_fct_module">>)
        ELSE r2

deserialize_json_dn_properties(datanode_model_properties) ==
    LET r1 == deserialize_reference(datanode_model_properties,
                                    "encoder_module", "encoder_name", ENCODER)
        r2 == IF r1.ok
              THEN deserialize_reference(r1.val, "decoder_module", "decoder_name", DECODER)
              ELSE r1
    IN  IF r2.ok
        THEN del_keys(r2.val, <<"encoder_name", "encoder_module",
                                "decoder_name", "decoder_module">>)
        ELSE r2

deserialize_sql_dn_model_properties(datanode_model_properties) ==
    LET r1 == deserialize_reference(datanode_model_properties, "write_query_builder_module",
                                    "write_query_builder_name", WRITE_QUERY_BUILDER)
    IN  IF r1.ok
        THEN del_keys(r1.val, <<"write_query_builder_name", "write_query_builder_module">>)
        ELSE r1

deserialize_mongo_collection_dn_model_properties(datanode_model_properties) ==
    IF CUSTOM_DOCUMENT \in DOMAIN datanode_model_properties
       /\ datanode_model_properties[CUSTOM_DOCUMENT].kind = "str"
    THEN Put(datanode_model_properties, CUSTOM_DOCUMENT,
             locate(datanode_model_properties[CUSTOM_DOCUMENT]))
    ELSE datanode_model_properties

\* Lines 259-266: generic, JSON and SQL references are resolved first.
deserialize_variant_properties(storage_type, properties) ==
    CASE storage_type = GENERIC -> deserialize_generic_dn_properties(properties)
      [] storage_type = JSON -> deserialize_json_dn_properties(properties)
      [] storage_type = SQL -> deserialize_sql_dn_model_properties(properties)
      [] OTHER -> Ok(properties)

\* v if v in _VALID_STRING_EXPOSED_TYPES else locate(v)
deserialize_exposed_value(v) ==
    IF v \in VALID_STRING_EXPOSED_TYPES THEN v ELSE locate(v)

deserialize_exposed_type(properties) ==
    IF EXPOSED_TYPE_KEY \notin DOMAIN properties THEN properties
    ELSE LET x == properties[EXPOSED_TYPE_KEY]
         IN  IF x \in VALID_STRING_EXPOSED_TYPES THEN properties
             ELSE CASE x.kind = "str" -> Put(properties, EXPOSED_TYPE_KEY, locate(x))
                    [] x.kind = "dict" ->
                         Put(properties, EXPOSED_TYPE_KEY,
                             PyDict([k \in DOMAIN x.items |->
                                        deserialize_exposed_value(x.items[k])]))
                    [] x.kind = "list" ->
                         Put(properties, EXPOSED_TYPE_KEY,
                             PyList([i \in DOMAIN x.items |->
                                        deserialize_exposed_value(x.items[i])]))
                    [] OTHER -> properties

\* Mutant of validity_period_of: a missing seconds field counts as zero.
validity_period_of_days_alone(validity_days, validity_seconds) ==
    IF validity_days # None
    THEN timedelta(validity_days.v, IF validity_seconds # None THEN validity_seconds.v ELSE 0)
    ELSE None

\* Lines 286-288: a duration only when both fields are set.
validity_period_of(validity_days, validity_seconds) ==
    IF validity_seconds # None /\ validity_days # None
    THEN timedelta(validity_days.v, validity_seconds.v)
    ELSE None

\* _deserialize_edits(edits): the loop assigns into each Edit dict in place, one
\* after the other, and stops at the first timestamp that does not parse.  The
\* result holds the Edit dicts as the loop left them, the exception if one was
\* raised, and the number of deprecation diagnostics emitted.
RECURSIVE deserialize_edits_from(_, _, _, _)
deserialize_edits_from(edits, i, now, warnings) ==
    IF i > Len(edits) THEN [edits |-> edits, ret |-> Ok(edits), warnings |-> warnings]
    ELSE LET timestamp == Get(edits[i], "timestamp")
         IN  IF Truthy(timestamp)
             THEN LET t == fromisoformat(timestamp)
                  IN  IF t.ok
                      THEN deserialize_edits_from(
                               [edits EXCEPT ![i] = Put(@, "timestamp", t.val)],
                               i + 1, now, warnings)
                      ELSE [edits |-> edits, ret |-> t, warnings |-> warnings]
             ELSE deserialize_edits_from(
                      [edits EXCEPT ![i] = Put(@, "timestamp", now)],
                      i + 1, now, warnings + 1)

deserialize_edits(edits, now) == deserialize_edits_from(edits, 1, now, 0)

\* DataNode._class_map(): the data node class of each storage type.
class_map ==
    [st \in {GENERIC, JSON, SQL, MONGO, "pickle", "csv", "in_memory"} |->
        [storage_type |-> st]]

\* The constructor of a data node class: every field as passed, the storage
\* type that of the class.
new_data_node(cls, config_id, scope, id, name, owner_id, parent_ids, last_edit_date, edits, version, validity_period, edit_in_progress, properties) ==
    [id |-> id, config_id |-> config_id, scope |-> scope,
     storage_type |-> cls.storage_type, name |-> name, owner_id |-> owner_id,
     parent_ids |-> parent_ids, last_edit_date |-> last_edit_date, edits |-> edits,
     version |-> version, validity_period |-> validity_period,
     edit_in_progress |-> edit_in_progress, properties |-> properties]

\* _migrate_entity(entity): no migration is registered for the versions at hand.
migrate_entity(datanode) == datanode

\* set(l)
set_of(l) == {l[i] : i \in 1..Len(l)}

\* Mutant of lookup_class: an unknown storage type falls back to a default class.
lookup_class_with_default(storage_type) ==
    IF storage_type \in DOMAIN class_map
    THEN Ok(class_map[storage_type])
    ELSE Ok(class_map["pickle"])

\* DataNode._class_map()[model.storage_type]
lookup_class(storage_type) ==
    IF storage_type \in DOMAIN class_map
    THEN Ok(class_map[storage_type])
    ELSE Raise("KeyError", storage_type)

\* _model_to_entity(model): the DataNode or the exception raised, the Edit
\* dicts of the model as the call left them, and the number of deprecation
\* diagnostics emitted.
model_to_entity(m, now) ==
    LET p1 == deserialize_variant_properties(m.storage_type, m.data_node_properties)
        p2 == deserialize_exposed_type(p1.val)
        p3 == IF m.storage_type = MONGO
              THEN deserialize_mongo_collection_dn_model_properties(p2)
              ELSE p2
        validity_period == validity_period_of(m.validity_days, m.validity_seconds)
        cls == lookup_class(m.storage_type)
        last_edit_date == IF Truthy(m.last_edit_date)
                          THEN fromisoformat(m.last_edit_date)
                          ELSE Ok(None)
        e == deserialize_edits(m.edits, now)
    IN  IF ~p1.ok THEN [ret |-> p1, edits |-> m.edits, warnings |-> 0]
        ELSE IF ~cls.ok THEN [ret |-> cls, edits |-> m.edits, warnings |-> 0]
        ELSE IF ~last_edit_date.ok
             THEN [ret |-> last_edit_date, edits |-> m.edits, warnings |-> 0]
        ELSE IF ~e.ret.ok THEN [ret |-> e.ret, edits |-> e.edits, warnings |-> e.warnings]
        ELSE [ret |-> Ok(migrate_entity(
                        new_data_node(cls.val, m.config_id, m.scope, m.id, m.name,
                                      m.owner_id, set_of(m.parent_ids), last_edit_date.val,
                                      e.edits, m.version, validity_period,
                                      m.edit_in_progress, p3))),
              edits |-> e.edits,
              warnings |-> e.warnings]

---------------------------------------------------------------------------
(* Inputs *)

NoModel == [kind |-> "NoModel"]

NoResult == [ok |-> TRUE, val |-> None]

\* What datetime.now() may answer during a conversion.
NowTimes == {DateTime(9, 0, 0), DateTime(9, 5, 3)}

\* An Edit with a timestamp and a job, one with a timestamp only, and a legacy
\* Edit that carries a job reference and no timestamp.
EditInputs ==
    { [timestamp |-> DateTime(1, 10, 0), job_id |-> Str("job1")],
      [timestamp |-> DateTime(2, 20, 7)],
      [job_id |-> Str("job2")] }

EditSeqInputs == UNION {[1..n -> EditInputs] : n \in 0..MaxEdits}

ValidityInputs ==
    {None, TimeDelta(0, 0, 0), TimeDelta(1, 30, 0), TimeDelta(0, 0, 5)}

\* A function or class property: missing from the bag, None, or the object.
OptionalProperty(key, o) == {EmptyDict, [k \in {key} |-> None], [k \in {key} |-> o]}

Merge(f, g) == [k \in (DOMAIN f) \cup (DOMAIN g) |-> IF k \in DOMAIN f THEN f[k] ELSE g[k]]

\* The property bags of each storage type, without exposed_type.
VariantPropertyInputs(storage_type) ==
    CASE storage_type = GENERIC ->
           {Merge(r, w) : r \in OptionalProperty(READ_FCT, Obj("lib.io", "read")),
                          w \in OptionalProperty(WRITE_FCT, Obj("app.io", "write"))}
      [] storage_type = JSON ->
           {Merge(r, w) : r \in OptionalProperty(ENCODER, Obj("app.codec", "Encoder")),
                          w \in OptionalProperty(DECODER, Obj("app.codec", "Decoder"))}
      [] storage_type = SQL ->
           {Merge([db_name |-> Str("db")], w) :
                w \in OptionalProperty(WRITE_QUERY_BUILDER, Obj("app.sql", "build_query"))}
      [] storage_type = MONGO ->
           {[db_name |-> Str("db")],
            [db_name |-> Str("db"), custom_document |-> Obj("app.docs", "Document")]}
      [] OTHER ->
           {[path |-> Str("data.p")],
            [path |-> Str("data.p"), exposed_type |-> Obj("pandas", "DataFrame")]}

\* The fields the converter copies as they are (or through list/set and
\* isoformat): a bare data node, and one with every field set.
PlainFieldInputs ==
    { [name |-> None, owner_id |-> None, parent_ids |-> {}, last_edit_date |-> None,
       edit_in_progress |-> FALSE],
      [name |-> Str("X"), owner_id |-> Str("scenario1"),
       parent_ids |-> {Str("task1"), Str("task2")},
       last_edit_date |-> DateTime(2, 20, 7), edit_in_progress |-> TRUE] }

DataNodeInput(id, storage_type, plain, properties, edits, validity_period) ==
    [id |-> id, config_id |-> Str("cfg"), scope |-> Str("SCENARIO"),
     storage_type |-> storage_type, name |-> plain.name, owner_id |-> plain.owner_id,
     parent_ids |-> plain.parent_ids, last_edit_date |-> plain.last_edit_date,
     edits |-> edits, version |-> Str("1.0"), validity_period |-> validity_period,
     edit_in_progress |-> plain.edit_in_progress, properties |-> properties]

EntityInputs ==
    UNION { { DataNodeInput(Str("dn"), st, plain, props, edits, vp) :
                plain \in PlainFieldInputs,
                props \in VariantPropertyInputs(st),
                edits \in EditSeqInputs,
                vp \in ValidityInputs }
            : st \in {GENERIC, JSON, SQL, MONGO, "pickle"} }

\* A model that this converter did not write: a record of another version of
\* the program or a damaged one, with a storage type no class has, with one
\* of the two validity fields present and the other missing, or with a first
\* Edit that has a job reference and no timestamp.
ForeignModels(m) ==
    ({ [m EXCEPT !.storage_type = "legacy_store"],
       [m EXCEPT !.validity_days = None],
       [m EXCEPT !.validity_seconds = None],
       [m EXCEPT !.validity_days = PyInt(1), !.validity_seconds = None] }
     \cup { [x EXCEPT !.edits[1] = Put(Del(@, "timestamp"), "job_id", Str("job0"))] :
              x \in {y \in {m} : Len(y.edits) > 0} }) \ {m}

---------------------------------------------------------------------------
(* The converter as a state machine *)

RepoUnused == store = EmptyDict /\ saved = EmptyDict

Init ==
    /\ entity \in EntityInputs
    /\ model = NoModel
    /\ ret = NoResult
    /\ op = [name |-> "init", origin |-> "none", calls |-> 0]
    /\ diag = 0
    /\ RepoUnused

\* _entity_to_model(entity)
ToModel ==
    /\ op.name = "init"
    /\ \E now \in NowTimes :
         \E r \in {entity_to_model(entity, now)} :
             /\ ret' = r.ret
             /\ diag' = r.warnings
             /\ model' = IF r.ret.ok THEN r.ret.val ELSE model
    /\ op' = [name |-> "to_model", origin |-> "to_model", calls |-> 0]
    /\ UNCHANGED <<entity, store, saved>>

\* A model from elsewhere takes the place of the one just written.
ForeignModel ==
    /\ op.name = "to_model"
    /\ ret.ok
    /\ model' \in ForeignModels(model)
    /\ op' = [name |-> "foreign", origin |-> "foreign", calls |-> 0]
    /\ UNCHANGED <<entity, ret, diag, store, saved>>

\* _model_to_entity(model); the model object stays with the caller, who may
\* convert it again.
FromModel ==
    /\ model # NoModel
    /\ op.name \in {"to_model", "foreign", "from_model"}
    /\ op.calls < 2
    /\ \E now \in NowTimes :
         \E r \in {model_to_entity(model, now)} :
             /\ ret' = r.ret
             /\ diag' = r.warnings
             /\ model' = [model EXCEPT !.edits = r.edits]
    /\ op' = [name |-> "from_model", origin |-> op.origin, calls |-> op.calls + 1]
    /\ UNCHANGED <<entity, store, saved>>

Next == ToModel \/ ForeignModel \/ FromModel

Spec == Init /\ [][Next]_vars

---------------------------------------------------------------------------
(* Conversion of exposed_type: its own inputs, the same operations *)

ExposedAtoms ==
    VALID_STRING_EXPOSED_TYPES \cup {Obj("app.types", "Row"), Obj("lib.types", "Row")}

ExposedKey(i) == "sheet" \o ToString(i)

ExposedTypeInputs ==
    ExposedAtoms
    \cup UNION { {PyList(q) : q \in [1..n -> ExposedAtoms]} : n \in 0..MaxExposed }
    \cup UNION { {PyDict(f) : f \in [{ExposedKey(i) : i \in 1..n} -> ExposedAtoms]}
                 : n \in 0..MaxExposed }

\* One complete property bag for each storage type.
CompleteProperties(storage_type) ==
    CASE storage_type = GENERIC ->
           [read_fct |-> Obj("lib.io", "read"), write_fct |-> None]
      [] storage_type = JSON -> [encoder |-> Obj("app.codec", "Encoder")]
      [] storage_type = SQL -> [db_name |-> Str("db")]
      [] storage_type = MONGO -> [custom_document |-> Obj("app.docs", "Document")]
      [] OTHER -> [path |-> Str("data.csv")]

ExposedEntityInputs ==
    { DataNodeInput(Str("dn"), st, plain,
                    Put(CompleteProperties(st), EXPOSED_TYPE_KEY, x), <<>>, None) :
        st \in {GENERIC, JSON, SQL, MONGO, "csv"},
        plain \in PlainFieldInputs,
        x \in ExposedTypeInputs }

InitExposed ==
    /\ entity \in ExposedEntityInputs
    /\ model = NoModel
    /\ ret = NoResult
    /\ op = [name |-> "init", origin |-> "none", calls |-> 0]
    /\ diag = 0
    /\ RepoUnused

SpecExposed == InitExposed /\ [][Next]_vars

---------------------------------------------------------------------------
(* Claims about the converter *)

\* The first from_model of the model that to_model wrote for `entity`.
RoundTripDone == op.name = "from_model" /\ op.origin = "to_model" /\ op.calls = 1

AllEditsTimestamped(e) == \A i \in 1..Len(e.edits) : ~is_legacy_edit(e.edits[i])

\* C1: for every entity variant and every property bag, provided every Edit
\* carries a timestamp, to_model(e) succeeds and from_model(to_model(e)) is an
\* entity equal to e in every field.
C1_RoundTripEqualsEntity ==
    AllEditsTimestamped(entity) =>
        /\ (op.name = "to_model" => ret.ok)
        /\ (RoundTripDone => ret = Ok(entity))

\* C6: to_model(e) sets validity_days and validity_seconds both or neither,
\* both exactly when e has a validity period, and the duration from_model
\* rebuilds from them is e's validity period.
C6_ValidityPeriodRoundTrip ==
    /\ (op.name = "to_model" /\ ret.ok =>
          /\ (model.validity_days = None) <=> (model.validity_seconds = None)
          /\ (model.validity_days # None) <=> (entity.validity_period # None)
          /\ validity_period_of(model.validity_days, model.validity_seconds)
               = entity.validity_period)
    /\ (RoundTripDone /\ ret.ok => ret.val.validity_period = entity.validity_period)

\* Name and namespace of a reference in a model's property map: both null when
\* the entity has no such callable, its name and module otherwise; the
\* callable's own key is not in the map.
ReferenceSerialized(e, m, key, name_key, module_key) ==
    /\ key \notin DOMAIN m.data_node_properties
    /\ name_key \in DOMAIN m.data_node_properties
    /\ module_key \in DOMAIN m.data_node_properties
    /\ IF Truthy(Get(e.properties, key))
       THEN /\ m.data_node_properties[name_key] = Str(e.properties[key].name)
            /\ m.data_node_properties[module_key] = Str(e.properties[key].module)
       ELSE /\ m.data_node_properties[name_key] = None
            /\ m.data_node_properties[module_key] = None

\* C8: to_model succeeds on every entity of every variant, also when a
\* generic read/write callable, a JSON encoder/decoder or an SQL write query
\* builder is absent from the property bag; each reference is carried as name
\* and namespace, null for both when absent.
C8_ToModelTotal ==
    op.name = "to_model" =>
        /\ ret.ok
        /\ entity.storage_type = GENERIC =>
             /\ ReferenceSerialized(entity, model, READ_FCT, "read_fct_name", "read_fct_module")
             /\ ReferenceSerialized(entity, model, WRITE_FCT, "write_fct_name", "write_fct_module")
        /\ entity.storage_type = JSON =>
             /\ ReferenceSerialized(entity, model, ENCODER, "encoder_name", "encoder_module")
             /\ ReferenceSerialized(entity, model, DECODER, "decoder_name", "decoder_module")
        /\ entity.storage_type = SQL =>
             ReferenceSerialized(entity, model, WRITE_QUERY_BUILDER,
                                 "write_query_builder_name", "write_query_builder_module")

\* A model with exactly one of the two validity fields set.
PartialValidity(m) == (m.validity_days = None) # (m.validity_seconds = None)

FirstFromForeign == op.name = "from_model" /\ op.origin = "foreign" /\ op.calls = 1

\* C9 as claimed: from_model on a model with a partially specified validity
\* period fails with FormatError and returns no entity.
C9_PartialValidityFails ==
    FirstFromForeign /\ PartialValidity(model) =>
        ~ret.ok /\ ret.exc = "FormatError"

\* C9 as amended: from_model on a model with exactly one validity field set
\* raises nothing on that account; it returns an entity without a validity
\* period.
C9_PartialValidityIgnored ==
    FirstFromForeign /\ PartialValidity(model) =>
        ret.ok /\ ret.val.validity_period = None

C9_Witness ==
    FirstFromForeign /\ PartialValidity(model) /\ model.validity_days # None /\ ret.ok

\* The error the lookup in the variant constructor registry raises.
UnknownVariantError(storage_type) == Raise("KeyError", storage_type)

EditsStillSerialized(m) ==
    \A i \in 1..Len(m.edits) : m.edits[i]["timestamp"].kind = "str"

\* C10: from_model on a model whose storage_type is no key of the registry
\* fails with the lookup's error, no entity is built and nothing else is
\* done (no diagnostic, no Edit touched); for a storage_type of the registry
\* the entity is built by that entry's class and has the model's storage_type.
C10_VariantRegistry ==
    op.name = "from_model" /\ op.calls = 1 =>
        IF model.storage_type \in DOMAIN class_map
        THEN /\ ret.ok
             /\ ret.val.storage_type = class_map[model.storage_type].storage_type
             /\ ret.val.storage_type = model.storage_type
        ELSE /\ ret = UnknownVariantError(model.storage_type)
             /\ diag = 0
             /\ EditsStillSerialized(model)

C10_Witness ==
    /\ op.name = "from_model"
    /\ op.calls = 1
    /\ model.storage_type \notin DOMAIN class_map
    /\ ~ret.ok

\* The exposed_type of a model: no class object is left in it.
ExposedSerialized(x) ==
    CASE x.kind = "str" -> TRUE
      [] x.kind = "list" -> \A i \in DOMAIN x.items : x.items[i].kind = "str"
      [] x.kind = "dict" -> \A k \in DOMAIN x.items : x.items[k].kind = "str"
      [] OTHER -> FALSE

\* The fully qualified name of a class, a whitelisted token as it is.
ExposedNameOf(v) ==
    IF v.kind = "obj" THEN Str(v.module \o "." \o v.name) ELSE v

\* C7: exposed_type round-trips through to_model and from_model: a
\* whitelisted token stays as it is in the model and comes back unchanged, a
\* class is written as its fully qualified name and comes back as the same
\* class, for a single value, for the values of a mapping (keys kept) and for
\* the elements of a sequence (order kept), tokens and classes mixed.
C7_ExposedTypeRoundTrip ==
    LET x == entity.properties[EXPOSED_TYPE_KEY] IN
    /\ (op.name = "to_model" =>
          /\ ret.ok
          /\ LET y == model.data_node_properties[EXPOSED_TYPE_KEY]
             IN  /\ ExposedSerialized(y)
                 /\ y.kind = (IF x.kind = "obj" THEN "str" ELSE x.kind)
                 /\ x.kind \in {"str", "obj"} => y = ExposedNameOf(x)
                 /\ x.kind \in {"list", "dict"} =>
                      /\ DOMAIN y.items = DOMAIN x.items
                      /\ \A k \in DOMAIN x.items : y.items[k] = ExposedNameOf(x.items[k]))
    /\ (RoundTripDone =>
          /\ ret.ok
          /\ EXPOSED_TYPE_KEY \in DOMAIN ret.val.properties
          /\ ret.val.properties[EXPOSED_TYPE_KEY] = x)

C7_Witness ==
    /\ RoundTripDone
    /\ ret.ok
    /\ entity.properties[EXPOSED_TYPE_KEY].kind = "dict"
    /\ \E k1, k2 \in DOMAIN entity.properties[EXPOSED_TYPE_KEY].items :
         /\ entity.properties[EXPOSED_TYPE_KEY].items[k1] \in VALID_STRING_EXPOSED_TYPES
         /\ entity.properties[EXPOSED_TYPE_KEY].items[k2].kind = "obj"
         /\ ret.val.properties[EXPOSED_TYPE_KEY].items[k2].kind = "obj"

---------------------------------------------------------------------------
(* The repository: save, load, load_all, delete, delete_many, delete_all   *)
(* and search over a backend that keeps one model per identifier.  A save  *)
(* converts with _entity_to_model and writes the model under its id; a     *)
(* load reads the model afresh and converts it with _model_to_entity.      *)

DataNodeId(i) == "data_node-" \o ToString(i)

RepoIds == {DataNodeId(i) : i \in 0..(NumIds - 1)}

\* The order in which the backend lists its records.
ScanOrder == [i \in 1..NumIds |-> DataNodeId(i - 1)]

ModelNotFound(id) == Raise("ModelNotFound", id)

\* _save(entity): upsert of the entity's model under the model's id.
repo_save(records, data_node, now) ==
    LET r == entity_to_model(data_node, now)
    IN  IF r.ret.ok
        THEN [store |-> Put(records, r.ret.val.id.v, r.ret.val), ret |-> Ok(None),
              warnings |-> r.warnings]
        ELSE [store |-> records, ret |-> r.ret, warnings |-> r.warnings]

\* _load(id)
repo_load(records, id, now) ==
    IF id \in DOMAIN records
    THEN LET r == model_to_entity(records[id], now)
         IN  [ret |-> r.ret, warnings |-> r.warnings]
    ELSE [ret |-> ModelNotFound(id), warnings |-> 0]

\* A record passes the filters when each filtered field has the given value.
repo_matches(m, filters) == \A f \in DOMAIN filters : m[f] = filters[f]

\* The ids, from position i of the scan on, of the records that pass.
RECURSIVE repo_scan(_, _, _)
repo_scan(records, filters, i) ==
    IF i > Len(ScanOrder) THEN <<>>
    ELSE IF ScanOrder[i] \in DOMAIN records /\ repo_matches(records[ScanOrder[i]], filters)
         THEN <<ScanOrder[i]>> \o repo_scan(records, filters, i + 1)
         ELSE repo_scan(records, filters, i + 1)

\* Each of these records converted, in order.
repo_convert_all(records, ids, now) ==
    [i \in 1..Len(ids) |-> model_to_entity(records[ids[i]], now).ret]

\* The list of the converted entities, or the exception one conversion raised.
repo_collect(rs) ==
    IF \A i \in DOMAIN rs : rs[i].ok
    THEN Ok(PyList([i \in DOMAIN rs |-> rs[i].val]))
    ELSE rs[CHOOSE i \in DOMAIN rs : ~rs[i].ok]

\* _load_all(filters): the entities of the records that pass, in scan order.
repo_load_all(records, filters, now) ==
    [ret |-> repo_collect(repo_convert_all(records, repo_scan(records, filters, 1), now)),
     warnings |-> 0]

\* _delete(id)
repo_delete(records, id) ==
    IF id \in DOMAIN records
    THEN [store |-> Del(records, id), ret |-> Ok(None)]
    ELSE [store |-> records, ret |-> ModelNotFound(id)]

\* _delete_many(ids): an id that is not persisted is passed over.
repo_delete_many(records, ids) == [id \in (DOMAIN records) \ ids |-> records[id]]

\* _delete_all()
repo_delete_all(records) == EmptyDict

\* The records _search(field, value) may answer with.
repo_search_matches(records, field, value) ==
    {id \in DOMAIN records : records[id][field] = value}

\* The data nodes handed to save: picklable ones with every combination of
\* name and owner, one of them also with a zero validity period, and a
\* generic one whose property bag lacks both callables.
RepoEntityInputs ==
    { DataNodeInput(Str(id), "pickle",
                    [name |-> n, owner_id |-> o, parent_ids |-> {}, last_edit_date |-> None,
                     edit_in_progress |-> FALSE],
                    [path |-> Str("data.p")], <<>>, None) :
        id \in RepoIds, n \in {Str("X"), Str("Y")}, o \in {None, Str("scenario1")} }
    \cup
    { DataNodeInput(Str(id), "pickle",
                    [name |-> Str("X"), owner_id |-> None, parent_ids |-> {},
                     last_edit_date |-> None, edit_in_progress |-> FALSE],
                    [path |-> Str("data.p")], <<>>, TimeDelta(0, 0, 0)) : id \in RepoIds }
    \cup
    { DataNodeInput(Str(id), GENERIC,
                    [name |-> Str("X"), owner_id |-> None, parent_ids |-> {},
                     last_edit_date |-> None, edit_in_progress |-> FALSE],
                    EmptyDict, <<>>, None) : id \in RepoIds }

FilterInputs ==
    { EmptyDict, [name |-> Str("X")], [name |-> Str("Y")], [name |-> Str("Z")],
      [name |-> Str("X"), owner_id |-> Str("scenario1")] }

SearchInputs ==
    { <<"name", Str("X")>>, <<"name", Str("Z")>>, <<"owner_id", Str("scenario1")>> }

Now == DateTime(9, 0, 0)

InitRepo ==
    /\ store = EmptyDict
    /\ saved = EmptyDict
    /\ entity = None
    /\ model = NoModel
    /\ ret = NoResult
    /\ op = [name |-> "init"]
    /\ diag = 0

Save ==
    \E e \in RepoEntityInputs :
        \E r \in {repo_save(store, e, Now)} :
            /\ store' = r.store
            /\ ret' = r.ret
            /\ diag' = r.warnings
            /\ saved' = IF r.ret.ok THEN Put(saved, e.id.v, e) ELSE saved
            /\ op' = [name |-> "save", id |-> e.id.v, before |-> DOMAIN store]
            /\ UNCHANGED <<entity, model>>

Load ==
    \E id \in RepoIds :
        \E r \in {repo_load(store, id, Now)} :
            /\ ret' = r.ret
            /\ diag' = r.warnings
            /\ op' = [name |-> "load", id |-> id]
            /\ UNCHANGED <<entity, model, store, saved>>

LoadAll ==
    \E filters \in FilterInputs :
        \E r \in {repo_load_all(store, filters, Now)} :
            /\ ret' = r.ret
            /\ diag' = r.warnings
            /\ op' = [name |-> "load_all", filters |-> filters]
            /\ UNCHANGED <<entity, model, store, saved>>

Delete ==
    \E id \in RepoIds :
        \E r \in {repo_delete(store, id)} :
            /\ store' = r.store
            /\ ret' = r.ret
            /\ diag' = 0
            /\ saved' = Del(saved, id)
            /\ op' = [name |-> "delete", id |-> id, before |-> DOMAIN store]
            /\ UNCHANGED <<entity, model>>

DeleteMany ==
    \E ids \in SUBSET RepoIds :
        /\ store' = repo_delete_many(store, ids)
        /\ ret' = Ok(None)
        /\ diag' = 0
        /\ saved' = [id \in (DOMAIN saved) \ ids |-> saved[id]]
        /\ op' = [name |-> "delete_many", ids |-> ids, before |-> DOMAIN store]
        /\ UNCHANGED <<entity, model>>

DeleteAll ==
    /\ store' = repo_delete_all(store)
    /\ ret' = Ok(None)
    /\ diag' = 0
    /\ saved' = EmptyDict
    /\ op' = [name |-> "delete_all", before |-> DOMAIN store]
    /\ UNCHANGED <<entity, model>>

Search ==
    \E q \in SearchInputs :
        \E found \in {repo_search_matches(store, q[1], q[2])} :
            /\ IF found = {}
               THEN ret' = ModelNotFound(q[2].v) /\ diag' = 0
               ELSE \E id \in found :
                        \E r \in {model_to_entity(store[id], Now)} :
                            ret' = r.ret /\ diag' = r.warnings
            /\ op' = [name |-> "search", field |-> q[1], value |-> q[2]]
            /\ UNCHANGED <<entity, model, store, saved>>

NextRepo == Save \/ Load \/ LoadAll \/ Delete \/ DeleteMany \/ DeleteAll \/ Search

SpecRepo == InitRepo /\ [][NextRepo]_vars

---------------------------------------------------------------------------
(* Claims about the repository *)

\* C2: after any sequence of repository operations, load(id) returns the
\* entity most recently saved under id when id was saved and not deleted
\* since, and fails with ModelNotFound otherwise.
C2_LoadReturnsLastSaved ==
    op.name = "load" =>
        IF op.id \in DOMAIN saved
        THEN ret = Ok(saved[op.id])
        ELSE ret = ModelNotFound(op.id)

\* The identifiers of the entities a load_all returned.
ReturnedIds == {ret.val.items[i].id.v : i \in 1..Len(ret.val.items)}

\* C3: load_all() without filters returns exactly one entity per identifier
\* persisted; a save adds its identifier and no other, delete_many removes
\* the given identifiers and no other, delete_all leaves none, so that the
\* identifiers persisted are those saved and not deleted since.
C3_LoadAllCardinality ==
    /\ DOMAIN store = DOMAIN saved
    /\ (op.name = "load_all" /\ op.filters = EmptyDict =>
          /\ ret.ok
          /\ Len(ret.val.items) = Cardinality(DOMAIN saved)
          /\ ReturnedIds = DOMAIN saved)
    /\ (op.name = "save" /\ ret.ok => DOMAIN store = op.before \cup {op.id})
    /\ (op.name = "delete_many" =>
          /\ DOMAIN store = op.before \ op.ids
          /\ Cardinality(DOMAIN store)
               = Cardinality(op.before) - Cardinality(op.ids \cap op.before))
    /\ (op.name = "delete_all" => DOMAIN store = {})

C3_Witness ==
    /\ op.name = "load_all"
    /\ op.filters = EmptyDict
    /\ ret.ok
    /\ Len(ret.val.items) = 2
    /\ Cardinality(DOMAIN saved) = 2

\* The saved entities whose fields have the filtered values.
SavedMatching(filters) ==
    {id \in DOMAIN saved : \A f \in DOMAIN filters : saved[id][f] = filters[f]}

\* C4: load_all(filters) returns exactly the persisted entities whose
\* filtered fields all have the given values, each once; without a filter,
\* every persisted entity.
C4_FilterCorrect ==
    op.name = "load_all" =>
        /\ ret.ok
        /\ Len(ret.val.items) = Cardinality(SavedMatching(op.filters))
        /\ ReturnedIds = SavedMatching(op.filters)
        /\ \A i \in 1..Len(ret.val.items) :
             \A f \in DOMAIN op.filters : ret.val.items[i][f] = op.filters[f]

C4_Witness ==
    /\ op.name = "load_all"
    /\ op.filters = [name |-> Str("X"), owner_id |-> Str("scenario1")]
    /\ ret.ok
    /\ Len(ret.val.items) = 1
    /\ \E id \in DOMAIN saved :
         saved[id].name = Str("X") /\ saved[id].owner_id # Str("scenario1")

\* C5: search(field, value) returns a persisted entity whose field has the
\* value when there is one, and fails with ModelNotFound when there is none.
C5_SearchCorrect ==
    op.name = "search" =>
        IF \E id \in DOMAIN saved : saved[id][op.field] = op.value
        THEN /\ ret.ok
             /\ ret.val[op.field] = op.value
             /\ ret.val.id.v \in DOMAIN saved
             /\ saved[ret.val.id.v][op.field] = op.value
        ELSE ret = ModelNotFound(op.value.v)

C5_Witness ==
    /\ op.name = "search"
    /\ ret.ok
    /\ ret.val.name = Str("X")
    /\ \E id \in DOMAIN saved : saved[id].name # Str("X")

---------------------------------------------------------------------------
(* Legacy Edits and the converter's inputs *)

\* The Edits of a sequence that carry no timestamp.
LegacyEdits(edits) == {i \in 1..Len(edits) : is_legacy_edit(edits[i])}

\* An Edit after conversion: the keys it had and a timestamp, every other key
\* with the value it had.
OtherKeysKept(old, new) ==
    /\ DOMAIN new = (DOMAIN old) \cup {"timestamp"}
    /\ \A k \in (DOMAIN old) \ {"timestamp"} : new[k] = old[k]

\* Edits written by to_model: as many, in the same order; a legacy Edit has
\* the text of a current time, a timestamped one the text that reads back as
\* its timestamp.
EditsSerialized(old, new) ==
    /\ Len(new) = Len(old)
    /\ \A i \in 1..Len(old) :
         /\ OtherKeysKept(old[i], new[i])
         /\ IF is_legacy_edit(old[i])
            THEN \E now \in NowTimes : fromisoformat(new[i]["timestamp"]) = Ok(now)
            ELSE fromisoformat(new[i]["timestamp"]) = Ok(old[i]["timestamp"])

\* Edits read by from_model: as many, in the same order; a legacy Edit has a
\* current time, a timestamped one the time its text stands for.
EditsDeserialized(old, new) ==
    /\ Len(new) = Len(old)
    /\ \A i \in 1..Len(old) :
         /\ OtherKeysKept(old[i], new[i])
         /\ IF is_legacy_edit(old[i])
            THEN new[i]["timestamp"] \in NowTimes
            ELSE Ok(new[i]["timestamp"]) = fromisoformat(old[i]["timestamp"])

\* A step of to_model, and the first from_model on a model.
ToModelStep == op.name = "init" /\ op'.name = "to_model"

FirstFromModelStep == op.calls = 0 /\ op'.name = "from_model"

\* C11: an Edit without a timestamp never makes to_model or from_model fail:
\* the conversion ends as it ends for the same input without its Edits, and
\* when it completes there is one deprecation diagnostic for each legacy
\* Edit, each legacy Edit has a current time as its timestamp, its other keys
\* and its place in the sequence, and each Edit with a timestamp has the same
\* timestamp value after conversion (none of them adds a diagnostic).
C11_LegacyEditStep ==
    /\ ToModelStep =>
         /\ ret'.ok = entity_to_model([entity EXCEPT !.edits = <<>>], Now).ret.ok
         /\ ret'.ok => /\ EditsSerialized(entity.edits, ret'.val.edits)
                       /\ diag' = Cardinality(LegacyEdits(entity.edits))
    /\ FirstFromModelStep =>
         /\ ret'.ok = model_to_entity([model EXCEPT !.edits = <<>>], Now).ret.ok
         /\ ret'.ok => /\ EditsDeserialized(model.edits, ret'.val.edits)
                       /\ diag' = Cardinality(LegacyEdits(model.edits))

C11_LegacyEditsConverted == [][C11_LegacyEditStep]_vars

\* A model with a legacy Edit followed by a timestamped one has been read:
\* one diagnostic, two Edits in the entity.
C11_Witness ==
    /\ op.name = "from_model" /\ op.origin = "foreign" /\ op.calls = 1
    /\ ret.ok
    /\ diag = 1
    /\ Len(ret.val.edits) = 2
    /\ ret.val.edits[1]["timestamp"] \in NowTimes
    /\ ret.val.edits[2]["timestamp"] \notin NowTimes

\* Any from_model step, and the second one on the same model.
FromModelStep == op'.name = "from_model" /\ op'.calls = op.calls + 1

SecondFromModelStep == op.name = "from_model" /\ op.calls = 1 /\ op'.calls = 2

\* C12: the converter does not change its input: to_model leaves the entity
\* (property bag and Edits) as it was, from_model leaves every field of the
\* model as it was, each serialized Edit and its timestamp text included, and
\* a second from_model on the same model succeeds with an entity equal to the
\* first.
C12_InputUnchangedStep ==
    /\ ToModelStep => entity' = entity
    /\ FromModelStep => model' = model
    /\ SecondFromModelStep /\ ret.ok => ret' = ret

C12_InputsUnchanged == [][C12_InputUnchangedStep]_vars

====
